---- MODULE Spec2Model ----
(***************************************************************************)
(* Credential and token lifecycle of the user-management backend:          *)
(* UserController (login, refreshToken, logout, forgotPassword,            *)
(* verifyResetPasswordToken, resetPassword), TokenService (the JWT codec), *)
(* TokenRepository / TokenDatabaseService (the token ledger) and           *)
(* UserService / UserRepository (the user store).                          *)
(*                                                                         *)
(* Time is counted in abstract clock ticks.  One tick is the resolution of *)
(* the JWT "iat"/"exp" claims (one second in jsonwebtoken): two tokens     *)
(* signed for the same user, with the same secret and lifetime, within one *)
(* tick are the same string.  The lifetimes keep the order of the source   *)
(* (reset 1h < access 24h < refresh 90d) but are scaled to a few ticks.    *)
(***************************************************************************)
EXTENDS Integers, FiniteSets, Sequences, TLC

VARIABLES
    now,              \* the wall clock (new Date(), and the clock of jwt.verify)
    refreshSecretSet, \* process.env.JWT_REFRESH_SECRET is set (fixed at start-up)
    users,            \* the ids of the rows of table "users"
    registered,       \* the rows of table "users" that register created
    isVerified,       \* users.isVerified, per user
    password,         \* users.password (the stored digest), per user
    ledger,           \* the rows of table "tokens"
    mailbox,          \* per user: the reset token of the latest mail delivered
    curRefresh,       \* per user: the refresh token returned by the latest successful login
    prevRefresh,      \* per user: the refresh token returned by the successful login before that
    reqs,             \* the login requests in flight (concurrent specification only)
    last              \* the operation completed last, with its arguments and outcome

vars == <<now, refreshSecretSet, users, registered, isVerified, password, ledger, mailbox,
          curRefresh, prevRefresh, reqs, last>>

----------------------------------------------------------------------------
(* Bounds of the model *)

\* lifetime of a password-reset token in ticks; the other lifetimes and the
\* horizon of the clock are derived from it
ResetTTL == 2

AccessTTL == ResetTTL + 1

RefreshTTL == ResetTTL + 2

\* the horizon of the clock where refresh rows are followed to their sweep
MaxTime == RefreshTTL + 1

\* the horizon of the clock where reset rows are followed to their sweep
ResetHorizon == ResetTTL + 1

Users == {"u1", "u2"}

\* an e-mail address no user has
NoUserEmail == "nobody"

Emails == Users \cup {NoUserEmail}

InitialPassword == "Pass0"

Passwords == {"Pass0", "Pass1"}

\* the (password, confirmPassword) pairs presented to resetPassword
ResetInputs == {<<p, p>> : p \in Passwords} \cup {<<"Pass1", "Pass0">>}

\* a password of 64 characters, within the 6..128 the request schema admits
LongPassword == "Pass2xxxxxxxxxxxxxxxxxxxxxxxxxxxxxxxxxxxxxxxxxxxxxxxxxxxxxxxxxxx"

AllPasswords == Passwords \cup {LongPassword}

Procs == {"a", "b"}

----------------------------------------------------------------------------
(* Values *)

\* SQL NULL / JavaScript null; a timestamp t is held as <<t>>
Null == <<>>

\* JavaScript undefined
Undefined == "undefined"

\* the absence of a token (no login yet)
NoToken == [sec |-> "none", userId |-> "none", iat |-> 0, exp |-> 0]

REFRESH == "REFRESH"

RESET_PASSWORD == "RESET_PASSWORD"

USER_PASSWORD_SET == "USER_PASSWORD_SET"

Ok == "ok"

\* AppError 401 (createUnauthorizedError)
AuthenticationError == "AuthenticationError"

\* AppError 400 (createBadRequestError)
ValidationError == "ValidationError"

\* createConflictError (409)
ConflictError == "ConflictError"

\* createNotFoundError (404)
NotFoundError == "NotFoundError"

\* a plain Error thrown by a service (no status code)
PlainError == "Error"

\* the driver's error on a violated UNIQUE constraint
QueryFailedError == "QueryFailedError"

GenericResetMessage == "If the email exists, a password reset link has been sent."

----------------------------------------------------------------------------
(* Token Codec: TokenService *)

\* jwt.sign(payload, secret, {expiresIn}): the string is a function of the
\* payload (the user), the secret, iat and exp
SignJWT(secret, userId, t, ttl) ==
    [sec |-> secret, userId |-> userId, iat |-> t, exp |-> t + ttl]

\* jwt.verify(token, secret): signature, then exp (expired when clock >= exp)
VerifyJWT(token, secret, t) ==
    /\ token.sec = secret
    /\ t < token.exp

\* process.env.JWT_REFRESH_SECRET || process.env.JWT_SECRET
RefreshSecret == IF refreshSecretSet THEN "JWT_REFRESH_SECRET" ELSE "JWT_SECRET"

generateAccessToken(userId, t) == SignJWT("JWT_SECRET", userId, t, AccessTTL)

generateRefreshToken(userId, t) == SignJWT(RefreshSecret, userId, t, RefreshTTL)

generatePasswordResetToken(userId, t) == SignJWT("JWT_SECRET", userId, t, ResetTTL)

verifyAccessToken(token, t) == VerifyJWT(token, "JWT_SECRET", t)

\* TokenService.verifyJWT: the access-token check under its older name
verifyJWT(token, t) == verifyAccessToken(token, t)

verifyRefreshToken(token, t) == VerifyJWT(token, RefreshSecret, t)

verifyPasswordResetToken(token, t) == VerifyJWT(token, "JWT_SECRET", t)

\* payload.jti of a verified token: createTokenPayload puts userId, email,
\* fullName, userName and role in the payload and jwt.sign adds iat and exp,
\* so the property is absent
PayloadJti(token) == Undefined

\* a string that is not three base64url segments
MalformedToken == [sec |-> "malformed", userId |-> "none", iat |-> 0, exp |-> 0]

\* jwt.verify(token, secret): the error it throws, "" when it returns the
\* payload.  The structure is checked first, then the signature, then exp
jwtVerifyError(token, secret, t) ==
    IF token.sec = "malformed" THEN "JsonWebTokenError: jwt malformed"
    ELSE IF token.sec # secret THEN "JsonWebTokenError: invalid signature"
    ELSE IF ~(t < token.exp) THEN "TokenExpiredError: jwt expired"
    ELSE ""

\* what the try block of a verify operation throws: the createBadRequestError
\* of a missing secret, or the error of jwt.verify ("" is the unset secret)
verifyTryError(token, secret, t) ==
    IF secret = "" THEN "BadRequestError: JWT_SECRET environment variable is not set"
    ELSE jwtVerifyError(token, secret, t)

\* process.env.JWT_SECRET
AccessSecretEnv(jwtSecretSet) == IF jwtSecretSet THEN "JWT_SECRET" ELSE ""

\* process.env.JWT_REFRESH_SECRET || process.env.JWT_SECRET
RefreshSecretEnv(jwtSecretSet) ==
    IF refreshSecretSet THEN "JWT_REFRESH_SECRET" ELSE AccessSecretEnv(jwtSecretSet)

\* TokenService.verifyAccessToken: the error it throws (kind Ok when it
\* returns the payload); the catch block replaces every error of the try block
verifyAccessTokenThrows(token, jwtSecretSet, t) ==
    IF verifyTryError(token, AccessSecretEnv(jwtSecretSet), t) = ""
    THEN [kind |-> Ok, message |-> ""]
    ELSE [kind |-> AuthenticationError, message |-> "Invalid access token"]

\* TokenService.verifyPasswordResetToken
verifyPasswordResetTokenThrows(token, jwtSecretSet, t) ==
    IF verifyTryError(token, AccessSecretEnv(jwtSecretSet), t) = ""
    THEN [kind |-> Ok, message |-> ""]
    ELSE [kind |-> AuthenticationError,
          message |-> "Invalid or expired password reset token"]

verifyRefreshTokenThrowsUncaught(token, jwtSecretSet, t) ==
    IF verifyTryError(token, RefreshSecretEnv(jwtSecretSet), t) = ""
    THEN [kind |-> Ok, message |-> ""]
    ELSE IF RefreshSecretEnv(jwtSecretSet) = ""
    THEN [kind |-> ValidationError,
          message |-> verifyTryError(token, RefreshSecretEnv(jwtSecretSet), t)]
    ELSE [kind |-> PlainError,
          message |-> verifyTryError(token, RefreshSecretEnv(jwtSecretSet), t)]

\* TokenService.verifyRefreshToken
verifyRefreshTokenThrows(token, jwtSecretSet, t) ==
    IF verifyTryError(token, RefreshSecretEnv(jwtSecretSet), t) = ""
    THEN [kind |-> Ok, message |-> ""]
    ELSE [kind |-> AuthenticationError, message |-> "Invalid refresh token"]

\* the strings presented to the verify operations: tokens signed with either
\* secret of the server or with a foreign key, with each lifetime, and a
\* malformed string
CodecTokens ==
    {SignJWT(sec, "u1", i, ttl) :
        sec \in {"JWT_SECRET", "JWT_REFRESH_SECRET", "forged"},
        i \in 0 .. 1, ttl \in {ResetTTL, AccessTTL, RefreshTTL}}
        \cup {MalformedToken}

CodecKinds == {"access", "refresh", "reset"}

\* tokens signed with a key that is not the server's
ForgedTokens ==
    {[sec |-> "forged", userId |-> u, iat |-> 0, exp |-> MaxTime + 1] : u \in {"u1"}}

----------------------------------------------------------------------------
(* Password Hasher: User.hashPassword / User.validatePassword *)

Hash(plain) == <<"bcrypt", plain>>

\* bcrypt.compare: true only for the digest of the plain text; a stored value
\* that is no digest matches nothing
validatePassword(plain, digest) == digest = Hash(plain)

\* User.hashPassword (@BeforeInsert/@BeforeUpdate): a password of fewer than
\* 60 characters is replaced by its digest, a longer one is taken for a
\* digest already and stored as it is
hashPassword(plain) ==
    IF Len(plain) < 60 THEN Hash(plain) ELSE <<"plain", plain>>

----------------------------------------------------------------------------
(* Token Ledger: TokenRepository *)

RowsOf(led, type) == {r \in led : r.token_type = type}

\* the primary key given to a new row (a uuid): it names the row for as long
\* as the row lives, whatever its columns are updated to.  Two rows get the
\* same name only when the same string is inserted twice within one tick,
\* the first row having been deleted before
NewId(token, t) == <<token, t>>

\* repository.save(repository.create({...})): INSERT, refused when the UNIQUE
\* column "token" already holds the string
InsertToken(led, type, token, expiresAt, user, t) ==
    IF \E r \in led : r.token = token
    THEN [ok |-> FALSE, led |-> led]
    ELSE [ok |-> TRUE,
          led |-> led \cup {[id |-> NewId(token, t), token_type |-> type,
                             token |-> token, token_expire |-> expiresAt,
                             user |-> user, verified_at |-> Null]}]

invalidateUserRefreshTokensAnyType(led, userId) ==
    {r \in led : ~(r.user = userId)}

invalidateUserRefreshTokensWrongType(led, userId) ==
    {r \in led : ~(r.user = userId /\ r.token_type = RESET_PASSWORD)}

invalidateUserRefreshTokens(led, userId) ==
    {r \in led : ~(r.user = userId /\ r.token_type = REFRESH)}

storeRefreshTokenNoInvalidate(led, user, refreshToken, expiresAt, t) ==
    InsertToken(led, REFRESH, refreshToken, expiresAt, user.id, t)

storeRefreshToken(led, user, refreshToken, expiresAt, t) ==
    InsertToken(invalidateUserRefreshTokens(led, user.id), REFRESH,
                refreshToken, expiresAt, user.id, t)

findRefreshTokenAnyToken(led, token) == RowsOf(led, REFRESH)

\* findOne({where: {token, token_type}}): the rows the query can return
findRefreshToken(led, token) ==
    {r \in led : r.token = token /\ r.token_type = REFRESH}

invalidateRefreshTokenKeepsRow(led, token) == led

invalidateRefreshTokenEveryRow(led, token) == led \ RowsOf(led, REFRESH)

invalidateRefreshToken(led, token) ==
    {r \in led : ~(r.token = token /\ r.token_type = REFRESH)}

cleanupExpiredTokens(led, t) == {r \in led : ~(r.token_expire < t)}

isRefreshTokenValid(led, token, t) ==
    /\ findRefreshToken(led, token) # {}
    /\ \A r \in findRefreshToken(led, token) : r.token_expire > t

\* no row: what findOne answers when nothing matches (null)
NoRow == [id |-> "none"]

\* findOne({where: {token: key, token_type: type}}): the rows the query can
\* return.  A where-property whose value is undefined puts no condition on the
\* column, so with an undefined key every row of the type matches and the
\* database answers any one of them
findOneByToken(led, key, type) ==
    IF key = Undefined
    THEN RowsOf(led, type)
    ELSE {r \in RowsOf(led, type) : r.token = key}

\* repository.save(existingToken): UPDATE of the row, refused when another
\* row already holds the string in the UNIQUE column "token"
SaveResetRow(led, existingToken, resetToken, expiresAt) ==
    IF \E r \in led \ {existingToken} : r.token = resetToken
    THEN [ok |-> FALSE, led |-> led]
    ELSE [ok |-> TRUE,
          led |-> (led \ {existingToken}) \cup
                  {[existingToken EXCEPT !.token = resetToken,
                                         !.token_expire = expiresAt,
                                         !.verified_at = Null]}]

storePasswordResetTokenAlwaysInsert(led, user, resetToken, expiresAt, t) ==
    {InsertToken(led, RESET_PASSWORD, resetToken, expiresAt, user.id, t)}

\* the outcomes of storePasswordResetToken (one per row findOne can answer)
storePasswordResetToken(led, user, resetToken, expiresAt, t) ==
    LET existing == {r \in RowsOf(led, RESET_PASSWORD) : r.user = user.id}
    IN  IF existing # {}
        THEN {SaveResetRow(led, e, resetToken, expiresAt) : e \in existing}
        ELSE {InsertToken(led, RESET_PASSWORD, resetToken, expiresAt, user.id, t)}

\* the outcomes of TokenRepository.storeAdminSetPasswordToken: the row looked
\* up is the user's RESET_PASSWORD row, the row created is a USER_PASSWORD_SET row
storeAdminSetPasswordToken(led, user, resetToken, expiresAt, t) ==
    LET existing == {r \in RowsOf(led, RESET_PASSWORD) : r.user = user.id}
    IN  IF existing # {}
        THEN {SaveResetRow(led, e, resetToken, expiresAt) : e \in existing}
        ELSE {InsertToken(led, USER_PASSWORD_SET, resetToken, expiresAt, user.id, t)}

findPasswordResetToken(led, token) ==
    IF findOneByToken(led, token, RESET_PASSWORD) = {}
    THEN {NoRow}
    ELSE findOneByToken(led, token, RESET_PASSWORD)

\* TokenRepository.findAndVerifyPasswordResetToken: the answers it can give
findAndVerifyPasswordResetToken(led, jti, userId, t) ==
    IF findOneByToken(led, jti, RESET_PASSWORD) = {}
    THEN {NoRow}
    ELSE {IF r.user # userId THEN NoRow
          ELSE IF r.token_expire <= t THEN NoRow
          ELSE r : r \in findOneByToken(led, jti, RESET_PASSWORD)}

\* repository.update({id: tokenId}, {verified_at})
updateToken(led, tokenId, verifiedAt) ==
    {IF r.id = tokenId THEN [r EXCEPT !.verified_at = verifiedAt] ELSE r : r \in led}

\* TokenDatabaseService.findAndVerifyPasswordResetToken: the row, or the
\* message of the Error thrown
dbFindAndVerifyPasswordResetToken(led, jti, userId, t) ==
    {IF r = NoRow THEN [error |-> "Invalid or expired token"]
     ELSE IF r.verified_at # Null THEN [error |-> "Token has already been verified"]
     ELSE [error |-> "", row |-> r]
       : r \in findAndVerifyPasswordResetToken(led, jti, userId, t)}

----------------------------------------------------------------------------
(* User Store: UserRepository / UserService *)

\* findOne({where: {email}}): the e-mail of user u is u
\* column users.suspend_at: null, or the time of the suspension.  No
\* operation of the program writes or reads the column; u2 stands for an
\* account whose row carries a suspension
suspend_at == [u \in Users |-> IF u = "u2" THEN <<0>> ELSE Null]

getUserByIdAnyId(id) == {id}

\* UserService.getUserById / UserRepository.findById: the user, or null
getUserById(id) == IF id \in users THEN {id} ELSE {}

findByEmail(email) == IF email \in users THEN {email} ELSE {}

findByEmailAndPassword(email, plain) ==
    {u \in findByEmail(email) : validatePassword(plain, password[u])}

\* UserService.loginUser: the user, or the error thrown
loginUser(email, plain) ==
    IF findByEmailAndPassword(email, plain) = {} THEN AuthenticationError
    ELSE IF \E u \in findByEmailAndPassword(email, plain) : ~isVerified[u]
         THEN AuthenticationError
         ELSE Ok

validateUserForPasswordResetAnyUser(email) ==
    IF findByEmail(email) = {} THEN [user |-> NoUserEmail, error |-> ""]
    ELSE [user |-> email, error |-> ""]

\* UserService.validateUserForPasswordReset: the user, null, or the error thrown
validateUserForPasswordReset(email) ==
    IF findByEmail(email) = {} THEN [user |-> NoUserEmail, error |-> ""]
    ELSE IF ~isVerified[email] THEN [user |-> NoUserEmail, error |-> AuthenticationError]
    ELSE [user |-> email, error |-> ""]

\* UserRepository.update(id, {password}): Object.assign and save, the
\* BeforeUpdate hook hashing the new password
updateUser(pw, userId, plain) == [pw EXCEPT ![userId] = hashPassword(plain)]

----------------------------------------------------------------------------
(* Credential Service: UserController.login / refreshToken / logout *)

\* what refreshToken answers for a presented token in the current state
RefreshOutcome(token) ==
    IF ~verifyRefreshToken(token, now) THEN AuthenticationError
    ELSE IF \/ findRefreshToken(ledger, token) = {}
            \/ ~isRefreshTokenValid(ledger, token, now)
         THEN AuthenticationError
         ELSE IF getUserById(token.userId) = {} THEN NotFoundError
         ELSE Ok

\* the message of the error refreshToken throws for the token, "" when it
\* throws none
RefreshMessage(token) ==
    IF ~verifyRefreshToken(token, now) THEN "Invalid refresh token"
    ELSE IF \/ findRefreshToken(ledger, token) = {}
            \/ ~isRefreshTokenValid(ledger, token, now)
         THEN "Invalid or expired refresh token"
         ELSE IF getUserById(token.userId) = {} THEN "User not found"
         ELSE ""

\* the tokens a client can present: those handed out, and forged ones
IssuedRefresh == {curRefresh[u] : u \in Users} \cup {prevRefresh[u] : u \in Users}

MailedTokens == {mailbox[u] : u \in Users}

Presentable == ((IssuedRefresh \cup MailedTokens) \ {NoToken}) \cup ForgedTokens

IdleReqs == [p \in Procs |-> [pc |-> "idle"]]

Login(email, plain) ==
    /\ reqs = IdleReqs
    /\ IF loginUser(email, plain) # Ok
       THEN /\ last' = [op |-> "login", email |-> email, result |-> AuthenticationError]
            /\ UNCHANGED <<ledger, curRefresh, prevRefresh>>
       ELSE LET user == [id |-> email]
                refreshToken == generateRefreshToken(user.id, now)
                stored == storeRefreshToken(ledger, user, refreshToken, now + RefreshTTL, now)
            IN  /\ ledger' = stored.led
                /\ IF stored.ok
                   THEN /\ curRefresh' = [curRefresh EXCEPT ![user.id] = refreshToken]
                        /\ prevRefresh' = [prevRefresh EXCEPT ![user.id] = curRefresh[user.id]]
                        /\ last' = [op |-> "login", email |-> email, result |-> Ok]
                   ELSE /\ UNCHANGED <<curRefresh, prevRefresh>>
                        /\ last' = [op |-> "login", email |-> email,
                                    result |-> QueryFailedError]
    /\ UNCHANGED <<now, refreshSecretSet, registered, users, isVerified, password, mailbox, reqs>>

Refresh(token) ==
    /\ reqs = IdleReqs
    /\ last' = [op |-> "refresh", token |-> token, result |-> RefreshOutcome(token)]
    /\ UNCHANGED <<now, refreshSecretSet, registered, users, isVerified, password, ledger, mailbox,
                   curRefresh, prevRefresh, reqs>>

Logout(token) ==
    /\ reqs = IdleReqs
    /\ ledger' = invalidateRefreshToken(ledger, token)
    /\ last' = [op |-> "logout", token |-> token, result |-> Ok]
    /\ UNCHANGED <<now, refreshSecretSet, registered, users, isVerified, password, mailbox,
                   curRefresh, prevRefresh, reqs>>

CleanupExpired ==
    /\ reqs = IdleReqs
    /\ ledger' = cleanupExpiredTokens(ledger, now)
    /\ last' = [op |-> "cleanupExpired",
                result |-> Cardinality(ledger) - Cardinality(ledger')]
    /\ UNCHANGED <<now, refreshSecretSet, registered, users, isVerified, password, mailbox,
                   curRefresh, prevRefresh, reqs>>

\* UserRepository.softDelete: the account is deactivated, the row stays
DeleteUser(u) ==
    /\ reqs = IdleReqs
    /\ isVerified[u]
    /\ isVerified' = [isVerified EXCEPT ![u] = FALSE]
    /\ last' = [op |-> "deleteUser", user |-> u, result |-> Ok]
    /\ UNCHANGED <<now, refreshSecretSet, registered, users, password, ledger, mailbox,
                   curRefresh, prevRefresh, reqs>>

Tick(horizon) ==
    /\ now < horizon
    /\ now' = now + 1
    /\ last' = [op |-> "tick", result |-> Ok]
    /\ UNCHANGED <<refreshSecretSet, registered, users, isVerified, password, ledger, mailbox,
                   curRefresh, prevRefresh, reqs>>

----------------------------------------------------------------------------
(* UserController.login as the requests of two clients whose awaited steps *)
(* interleave: loginUser and the signing of the tokens, then the DELETE of *)
(* invalidateUserRefreshTokens, then the INSERT of repository.save         *)

LoginBegin(p, email, plain) ==
    /\ reqs[p].pc = "idle"
    /\ IF loginUser(email, plain) # Ok
       THEN /\ last' = [op |-> "login", email |-> email, result |-> AuthenticationError]
            /\ UNCHANGED reqs
       ELSE /\ reqs' = [reqs EXCEPT ![p] =
                          [pc |-> "invalidate", user |-> email,
                           refreshToken |-> generateRefreshToken(email, now),
                           expiresAt |-> now + RefreshTTL]]
            /\ last' = [op |-> "loginBegin", email |-> email, result |-> Ok]
    /\ UNCHANGED <<now, refreshSecretSet, registered, users, isVerified, password, ledger, mailbox,
                   curRefresh, prevRefresh>>

LoginInvalidate(p) ==
    /\ reqs[p].pc = "invalidate"
    /\ ledger' = invalidateUserRefreshTokens(ledger, reqs[p].user)
    /\ reqs' = [reqs EXCEPT ![p].pc = "save"]
    /\ last' = [op |-> "loginInvalidate", email |-> reqs[p].user, result |-> Ok]
    /\ UNCHANGED <<now, refreshSecretSet, registered, users, isVerified, password, mailbox,
                   curRefresh, prevRefresh>>

LoginSave(p) ==
    /\ reqs[p].pc = "save"
    /\ LET r == reqs[p]
           stored == InsertToken(ledger, REFRESH, r.refreshToken, r.expiresAt, r.user, now)
       IN  /\ ledger' = stored.led
           /\ IF stored.ok
              THEN /\ curRefresh' = [curRefresh EXCEPT ![r.user] = r.refreshToken]
                   /\ prevRefresh' = [prevRefresh EXCEPT ![r.user] = curRefresh[r.user]]
                   /\ last' = [op |-> "login", email |-> r.user, result |-> Ok]
              ELSE /\ UNCHANGED <<curRefresh, prevRefresh>>
                   /\ last' = [op |-> "login", email |-> r.user,
                               result |-> QueryFailedError]
    /\ reqs' = [reqs EXCEPT ![p] = [pc |-> "idle"]]
    /\ UNCHANGED <<now, refreshSecretSet, registered, users, isVerified, password, mailbox>>

----------------------------------------------------------------------------
(* forgotPassword as the steps between its awaits, for requests in flight  *)
(* together: validate the user and sign the token, findOne of the user's   *)
(* reset row, save of the row and the mail                                 *)

ForgotBegin(p, email) ==
    /\ reqs[p].pc = "idle"
    /\ LET v == validateUserForPasswordReset(email)
       IN  IF v.error # ""
           THEN /\ last' = [op |-> "forgotPassword", email |-> email, result |-> v.error]
                /\ UNCHANGED reqs
           ELSE IF v.user = NoUserEmail
           THEN /\ last' = [op |-> "forgotPassword", email |-> email, result |-> Ok]
                /\ UNCHANGED reqs
           ELSE /\ reqs' = [reqs EXCEPT ![p] =
                              [pc |-> "lookup", user |-> v.user,
                               resetToken |-> generatePasswordResetToken(v.user, now),
                               expiresAt |-> now + ResetTTL]]
                /\ last' = [op |-> "forgotBegin", email |-> email, result |-> Ok]
    /\ UNCHANGED <<now, refreshSecretSet, registered, users, isVerified, password, ledger, mailbox,
                   curRefresh, prevRefresh>>

\* the row findOne({where: {user, token_type}}) answers, or null
ForgotLookup(p) ==
    /\ reqs[p].pc = "lookup"
    /\ LET existing == {r \in RowsOf(ledger, RESET_PASSWORD) : r.user = reqs[p].user}
       IN  \E e \in (IF existing = {} THEN {NoRow} ELSE existing) :
              reqs' = [reqs EXCEPT ![p] =
                         [pc |-> "save", user |-> reqs[p].user,
                          resetToken |-> reqs[p].resetToken,
                          expiresAt |-> reqs[p].expiresAt,
                          existingId |-> e.id]]
    /\ last' = [op |-> "forgotLookup", email |-> reqs[p].user, result |-> Ok]
    /\ UNCHANGED <<now, refreshSecretSet, registered, users, isVerified, password, ledger, mailbox,
                   curRefresh, prevRefresh>>

\* repository.save: UPDATE of the row found by the lookup (by its id), or
\* INSERT of a new row when the lookup found none; then the mail
ForgotSave(p) ==
    /\ reqs[p].pc = "save"
    /\ LET r == reqs[p]
           stored == IF r.existingId = NoRow.id
                     THEN InsertToken(ledger, RESET_PASSWORD, r.resetToken,
                                      r.expiresAt, r.user, now)
                     ELSE SaveResetRow(ledger,
                                       CHOOSE e \in ledger : e.id = r.existingId,
                                       r.resetToken, r.expiresAt)
       IN  /\ ledger' = stored.led
           /\ IF stored.ok
              THEN /\ mailbox' = [mailbox EXCEPT ![r.user] = r.resetToken]
                   /\ last' = [op |-> "forgotPassword", email |-> r.user, result |-> Ok]
              ELSE /\ UNCHANGED mailbox
                   /\ last' = [op |-> "forgotPassword", email |-> r.user,
                               result |-> QueryFailedError]
    /\ reqs' = [reqs EXCEPT ![p] = [pc |-> "idle"]]
    /\ UNCHANGED <<now, refreshSecretSet, registered, users, isVerified, password, curRefresh,
                   prevRefresh>>

----------------------------------------------------------------------------
(* verifyResetPasswordToken as the steps between its awaits: the Codec     *)
(* check and the lookup of the row, then the update of verified_at         *)

VerifyBegin(p, token) ==
    /\ reqs[p].pc = "idle"
    /\ IF ~verifyPasswordResetToken(token, now)
       THEN /\ last' = [op |-> "verifyResetToken", token |-> token,
                        result |-> AuthenticationError]
            /\ UNCHANGED reqs
       ELSE \E f \in dbFindAndVerifyPasswordResetToken(ledger, PayloadJti(token),
                                                       token.userId, now) :
               IF f.error # ""
               THEN /\ last' = [op |-> "verifyResetToken", token |-> token,
                                result |-> PlainError]
                    /\ UNCHANGED reqs
               ELSE /\ reqs' = [reqs EXCEPT ![p] =
                                  [pc |-> "verifyUpdate", token |-> token,
                                   rowId |-> f.row.id, rowToken |-> f.row.token]]
                    /\ last' = [op |-> "verifyBegin", token |-> token, result |-> Ok]
    /\ UNCHANGED <<now, refreshSecretSet, registered, users, isVerified, password, ledger, mailbox,
                   curRefresh, prevRefresh>>

\* tokenDatabaseService.updateToken(tokenRecord.id, {verified_at: new Date()})
VerifyUpdate(p) ==
    /\ reqs[p].pc = "verifyUpdate"
    /\ ledger' = updateToken(ledger, reqs[p].rowId, <<now>>)
    /\ last' = [op |-> "verifyResetToken", token |-> reqs[p].token, result |-> Ok]
    /\ reqs' = [reqs EXCEPT ![p] = [pc |-> "idle"]]
    /\ UNCHANGED <<now, refreshSecretSet, registered, users, isVerified, password, mailbox,
                   curRefresh, prevRefresh>>

----------------------------------------------------------------------------
(* resetPassword as the steps between its awaits: the Codec check and the  *)
(* read of the row, the update of the password, the clearing of verified_at *)

ResetBegin(p, token, plain) ==
    /\ reqs[p].pc = "idle"
    /\ IF ~verifyPasswordResetToken(token, now)
       THEN /\ last' = [op |-> "resetPassword", token |-> token, plain |-> plain,
                        confirm |-> plain, result |-> AuthenticationError]
            /\ UNCHANGED reqs
       ELSE \E tokenRecord \in findPasswordResetToken(ledger, PayloadJti(token)) :
               IF tokenRecord = NoRow \/ tokenRecord.verified_at = Null
               THEN /\ last' = [op |-> "resetPassword", token |-> token, plain |-> plain,
                                confirm |-> plain, result |-> ValidationError]
                    /\ UNCHANGED reqs
               ELSE /\ reqs' = [reqs EXCEPT ![p] =
                                  [pc |-> "resetUpdateUser", token |-> token,
                                   plain |-> plain, rowId |-> tokenRecord.id,
                                   user |-> tokenRecord.user]]
                    /\ last' = [op |-> "resetBegin", token |-> token, result |-> Ok]
    /\ UNCHANGED <<now, refreshSecretSet, registered, users, isVerified, password, ledger, mailbox,
                   curRefresh, prevRefresh>>

\* userService.updateUser(tokenRecord.user.id, {password})
ResetUpdateUser(p) ==
    /\ reqs[p].pc = "resetUpdateUser"
    /\ password' = updateUser(password, reqs[p].user, reqs[p].plain)
    /\ reqs' = [reqs EXCEPT ![p].pc = "resetClear"]
    /\ last' = [op |-> "resetUpdateUser", token |-> reqs[p].token, result |-> Ok]
    /\ UNCHANGED <<now, refreshSecretSet, registered, users, isVerified, ledger, mailbox,
                   curRefresh, prevRefresh>>

\* tokenDatabaseService.updateToken(tokenRecord.id, {verified_at: null})
ResetClear(p) ==
    /\ reqs[p].pc = "resetClear"
    /\ ledger' = updateToken(ledger, reqs[p].rowId, Null)
    /\ last' = [op |-> "resetPassword", token |-> reqs[p].token,
                plain |-> reqs[p].plain, confirm |-> reqs[p].plain, result |-> Ok]
    /\ reqs' = [reqs EXCEPT ![p] = [pc |-> "idle"]]
    /\ UNCHANGED <<now, refreshSecretSet, registered, users, isVerified, password, mailbox,
                   curRefresh, prevRefresh>>

----------------------------------------------------------------------------
(* refreshToken as the steps between its awaits (the Codec check and the   *)
(* reads of the row, then the read of the user), and the removal of a user *)

RefreshBegin(p, token) ==
    /\ reqs[p].pc = "idle"
    /\ IF \/ ~verifyRefreshToken(token, now)
          \/ findRefreshToken(ledger, token) = {}
          \/ ~isRefreshTokenValid(ledger, token, now)
       THEN /\ last' = [op |-> "refresh", token |-> token,
                        result |-> AuthenticationError]
            /\ UNCHANGED reqs
       ELSE /\ reqs' = [reqs EXCEPT ![p] = [pc |-> "refreshGetUser", token |-> token]]
            /\ last' = [op |-> "refreshBegin", token |-> token, result |-> Ok]
    /\ UNCHANGED <<now, refreshSecretSet, registered, users, isVerified, password, ledger, mailbox,
                   curRefresh, prevRefresh>>

\* userService.getUserById(decoded.userId), then the new access token
RefreshGetUser(p) ==
    /\ reqs[p].pc = "refreshGetUser"
    /\ IF getUserById(reqs[p].token.userId) = {}
       THEN last' = [op |-> "refresh", token |-> reqs[p].token,
                     result |-> NotFoundError, accessToken |-> NoToken]
       ELSE last' = [op |-> "refresh", token |-> reqs[p].token, result |-> Ok,
                     accessToken |-> generateAccessToken(reqs[p].token.userId, now)]
    /\ reqs' = [reqs EXCEPT ![p] = [pc |-> "idle"]]
    /\ UNCHANGED <<now, refreshSecretSet, registered, users, isVerified, password, ledger, mailbox,
                   curRefresh, prevRefresh>>

\* UserRepository.delete: the row of the user is removed, and with it the
\* user's rows of "tokens" (FOREIGN KEY ... ON DELETE CASCADE)
RemoveUser(u) ==
    /\ u \in users
    /\ users' = users \ {u}
    /\ ledger' = {r \in ledger : r.user # u}
    /\ last' = [op |-> "removeUser", user |-> u, result |-> Ok]
    /\ UNCHANGED <<now, refreshSecretSet, registered, isVerified, password, mailbox,
                   curRefresh, prevRefresh, reqs>>

----------------------------------------------------------------------------
(* the verify operations of the Token Codec, called on their own *)

\* jwtSecretSet: process.env.JWT_SECRET is set when the operation runs
CodecVerify(kind, token, jwtSecretSet) ==
    /\ reqs = IdleReqs
    /\ token.iat <= now
    /\ last' = [op |-> "codecVerify", kind |-> kind, token |-> token,
                jwtSecretSet |-> jwtSecretSet,
                result |-> CASE kind = "access" ->
                                  verifyAccessTokenThrows(token, jwtSecretSet, now)
                             [] kind = "refresh" ->
                                  verifyRefreshTokenThrows(token, jwtSecretSet, now)
                             [] kind = "reset" ->
                                  verifyPasswordResetTokenThrows(token, jwtSecretSet, now)]
    /\ UNCHANGED <<now, refreshSecretSet, registered, users, isVerified, password, ledger, mailbox,
                   curRefresh, prevRefresh, reqs>>

----------------------------------------------------------------------------
(* Registration: UserController.register / UserService.createUser *)

\* the e-mail addresses registration is asked for: one that belongs to a
\* user from the start, and new ones
RegEmails == {"u1", "new1", "new2"}

\* the e-mail addresses held by rows of "users"
TakenEmails == users \cup {r.email : r \in registered}

isEmailTakenNever(email) == FALSE

\* UserService.isEmailTaken: findByEmail answers a row
isEmailTaken(email) == email \in TakenEmails

\* repository.save(repository.create(userData)): INSERT of a row with a new
\* id, refused when the UNIQUE column "email" already holds the address
InsertUser(email) ==
    IF email \in TakenEmails
    THEN [ok |-> FALSE, rows |-> registered]
    ELSE [ok |-> TRUE,
          rows |-> registered \cup {[id |-> <<"uuid", Cardinality(registered)>>,
                                     email |-> email]}]

\* UserService.createUser: the error thrown (Ok when the row is created) and
\* the rows it leaves
createUser(email) ==
    IF InsertUser(email).ok
    THEN [result |-> Ok, rows |-> InsertUser(email).rows]
    ELSE [result |-> QueryFailedError, rows |-> registered]

Register(email) ==
    /\ reqs = IdleReqs
    /\ IF isEmailTaken(email)
       THEN /\ last' = [op |-> "register", email |-> email, result |-> ConflictError]
            /\ UNCHANGED registered
       ELSE /\ registered' = createUser(email).rows
            /\ last' = [op |-> "register", email |-> email,
                        result |-> createUser(email).result]
    /\ UNCHANGED <<now, refreshSecretSet, users, isVerified, password, ledger, mailbox,
                   curRefresh, prevRefresh, reqs>>

----------------------------------------------------------------------------
(* Auth Gate: authMiddleware *)

\* the access token login returns together with a refresh token
AccessOf(refreshToken) == generateAccessToken(refreshToken.userId, refreshToken.iat)

\* an access token the server signed for an account whose row has been
\* removed since (UserRepository.delete)
GhostToken == SignJWT("JWT_SECRET", "removed", 0, AccessTTL)

\* the tokens a client can put in the Authorization header
GateTokens ==
    {AccessOf(r) : r \in IssuedRefresh \ {NoToken}}
        \cup (IssuedRefresh \ {NoToken}) \cup ForgedTokens \cup {GhostToken}

\* the Authorization header: absent, or a scheme prefix followed by a token
Headers ==
    {[scheme |-> "", token |-> NoToken]}
        \cup {[scheme |-> sch, token |-> t] :
                 sch \in {"Bearer ", "bearer ", "Basic "}, t \in GateTokens}

\* what authMiddleware does with a request: the response status (0 when it
\* sends none), whether next() is called, the user attached to the request
\* and the number of calls of the Codec
AuthOutcome(authHeader) ==
    IF authHeader.scheme # "Bearer "
    THEN [status |-> 401, message |-> "Access token required", next |-> FALSE,
          user |-> NoUserEmail, codecCalls |-> 0]
    ELSE IF ~verifyJWT(authHeader.token, now)
    THEN [status |-> 401, message |-> "Invalid or expired token", next |-> FALSE,
          user |-> NoUserEmail, codecCalls |-> 1]
    ELSE IF getUserById(authHeader.token.userId) = {}
    THEN [status |-> 401, message |-> "Invalid or expired token", next |-> FALSE,
          user |-> NoUserEmail, codecCalls |-> 1]
    ELSE [status |-> 0, message |-> "", next |-> TRUE,
          user |-> authHeader.token.userId, codecCalls |-> 1]

AuthMiddleware(authHeader) ==
    /\ reqs = IdleReqs
    /\ last' = [op |-> "authMiddleware", header |-> authHeader,
                result |-> AuthOutcome(authHeader)]
    /\ UNCHANGED <<now, refreshSecretSet, registered, users, isVerified, password, ledger, mailbox,
                   curRefresh, prevRefresh, reqs>>

OptionalAuthOutcomeRejecting(authHeader) ==
    IF authHeader.scheme # "Bearer "
    THEN [status |-> 0, nextCalls |-> 1, user |-> NoUserEmail, codecCalls |-> 0]
    ELSE IF ~verifyJWT(authHeader.token, now)
    THEN [status |-> 401, nextCalls |-> 0, user |-> NoUserEmail, codecCalls |-> 1]
    ELSE [status |-> 0, nextCalls |-> 1, user |-> authHeader.token.userId,
          codecCalls |-> 1]

\* what optionalAuthMiddleware does with a request: the response status (0
\* when it sends none), the number of calls of next(), and the userId of the
\* decoded payload it attaches to the request
OptionalAuthOutcome(authHeader) ==
    IF authHeader.scheme # "Bearer "
    THEN [status |-> 0, nextCalls |-> 1, user |-> NoUserEmail, codecCalls |-> 0]
    ELSE IF ~verifyJWT(authHeader.token, now)
    THEN [status |-> 0, nextCalls |-> 1, user |-> NoUserEmail, codecCalls |-> 1]
    ELSE [status |-> 0, nextCalls |-> 1, user |-> authHeader.token.userId,
          codecCalls |-> 1]

OptionalAuthMiddleware(authHeader) ==
    /\ reqs = IdleReqs
    /\ last' = [op |-> "optionalAuthMiddleware", header |-> authHeader,
                result |-> OptionalAuthOutcome(authHeader)]
    /\ UNCHANGED <<now, refreshSecretSet, registered, users, isVerified, password, ledger,
                   mailbox, curRefresh, prevRefresh, reqs>>

----------------------------------------------------------------------------
(* Password Reset Orchestrator: UserController.forgotPassword /            *)
(* verifyResetPasswordToken / resetPassword                                *)

sendPasswordResetEmailSwallowed(mailerUp) == Ok

\* PasswordResetEmailService.sendPasswordResetEmail: the error of the Mailer
\* is logged and thrown again
sendPasswordResetEmail(mailerUp) == IF mailerUp THEN Ok ELSE PlainError

\* mailerUp: whether the Mailer accepts the message (sendEmail throws otherwise)
ForgotPassword(email, mailerUp) ==
    /\ reqs = IdleReqs
    /\ LET v == validateUserForPasswordReset(email)
       IN  IF v.error # ""
           THEN /\ last' = [op |-> "forgotPassword", email |-> email, result |-> v.error,
                            message |-> "Account is not verified", mailer |-> FALSE]
                /\ UNCHANGED <<ledger, mailbox>>
           ELSE IF v.user = NoUserEmail
           THEN /\ last' = [op |-> "forgotPassword", email |-> email, result |-> Ok,
                            message |-> GenericResetMessage, mailer |-> FALSE]
                /\ UNCHANGED <<ledger, mailbox>>
           ELSE LET user == [id |-> v.user]
                    resetToken == generatePasswordResetToken(user.id, now)
                IN  \E stored \in storePasswordResetToken(ledger, user, resetToken,
                                                         now + ResetTTL, now) :
                      /\ ledger' = stored.led
                      /\ IF ~stored.ok
                         THEN /\ last' = [op |-> "forgotPassword", email |-> email,
                                          result |-> QueryFailedError,
                                          message |-> "duplicate key", mailer |-> FALSE]
                              /\ UNCHANGED mailbox
                         ELSE /\ mailbox' = IF mailerUp
                                             THEN [mailbox EXCEPT ![user.id] = resetToken]
                                             ELSE mailbox
                              /\ last' = [op |-> "forgotPassword", email |-> email,
                                          result |-> sendPasswordResetEmail(mailerUp),
                                          message |->
                                              IF sendPasswordResetEmail(mailerUp) = Ok
                                              THEN GenericResetMessage
                                              ELSE "mail not sent",
                                          mailer |-> TRUE]
    /\ UNCHANGED <<now, refreshSecretSet, registered, users, isVerified, password, curRefresh,
                   prevRefresh, reqs>>

\* the admin set-password issuance of register and resendAdminPasswordSetMail:
\* a reset token is signed and stored with storeAdminSetPasswordToken, then
\* mailed with sendPasswordResetEmailWithMessage
SendAdminPasswordSetMail(u) ==
    /\ reqs = IdleReqs
    /\ u \in users
    /\ LET user == [id |-> u]
           resetToken == generatePasswordResetToken(user.id, now)
       IN  \E stored \in storeAdminSetPasswordToken(ledger, user, resetToken,
                                                   now + ResetTTL, now) :
             /\ ledger' = stored.led
             /\ IF ~stored.ok
                THEN /\ last' = [op |-> "adminSetPasswordMail", user |-> u,
                                 result |-> QueryFailedError]
                     /\ UNCHANGED mailbox
                ELSE /\ mailbox' = [mailbox EXCEPT ![u] = resetToken]
                     /\ last' = [op |-> "adminSetPasswordMail", user |-> u,
                                 result |-> Ok]
    /\ UNCHANGED <<now, refreshSecretSet, registered, users, isVerified, password, curRefresh,
                   prevRefresh, reqs>>

\* what verifyResetPasswordToken can answer for a presented token in the
\* current state, with the ledger it leaves
VerifyOutcomes(token) ==
    IF ~verifyPasswordResetToken(token, now)
    THEN {[result |-> AuthenticationError, led |-> ledger,
           message |-> "Invalid or expired password reset token"]}
    ELSE {IF f.error # ""
          THEN [result |-> PlainError, led |-> ledger, message |-> f.error]
          ELSE [result |-> Ok, led |-> updateToken(ledger, f.row.id, <<now>>),
                message |-> "Token verified successfully"]
            : f \in dbFindAndVerifyPasswordResetToken(ledger, PayloadJti(token),
                                                      token.userId, now)}

VerifyResetToken(token) ==
    /\ reqs = IdleReqs
    /\ \E o \in VerifyOutcomes(token) :
          /\ ledger' = o.led
          /\ last' = [op |-> "verifyResetToken", token |-> token, result |-> o.result]
    /\ UNCHANGED <<now, refreshSecretSet, registered, users, isVerified, password, mailbox,
                   curRefresh, prevRefresh, reqs>>

ResetOutcomesNoConfirmCheck(token, plain, confirmPassword) ==
    IF ~verifyPasswordResetToken(token, now)
    THEN {[result |-> AuthenticationError, led |-> ledger, pw |-> password,
           message |-> "Invalid or expired password reset token"]}
    ELSE {IF tokenRecord = NoRow \/ tokenRecord.verified_at = Null
          THEN [result |-> ValidationError, led |-> ledger, pw |-> password,
                message |-> "Invalid or expired password reset token"]
          ELSE [result |-> Ok,
                led |-> updateToken(ledger, tokenRecord.id, Null),
                pw |-> updateUser(password, tokenRecord.user, plain),
                message |-> "Password reset successfully"]
            : tokenRecord \in findPasswordResetToken(ledger, PayloadJti(token))}

\* what resetPassword can answer in the current state, with the ledger and
\* the passwords it leaves
ResetOutcomes(token, plain, confirmPassword) ==
    IF plain # confirmPassword
    THEN {[result |-> ValidationError, led |-> ledger, pw |-> password,
           message |-> "New password and confirm password do not match"]}
    ELSE IF ~verifyPasswordResetToken(token, now)
    THEN {[result |-> AuthenticationError, led |-> ledger, pw |-> password,
           message |-> "Invalid or expired password reset token"]}
    ELSE {IF tokenRecord = NoRow \/ tokenRecord.verified_at = Null
          THEN [result |-> ValidationError, led |-> ledger, pw |-> password,
                message |-> "Invalid or expired password reset token"]
          ELSE [result |-> Ok,
                led |-> updateToken(ledger, tokenRecord.id, Null),
                pw |-> updateUser(password, tokenRecord.user, plain),
                message |-> "Password reset successfully"]
            : tokenRecord \in findPasswordResetToken(ledger, PayloadJti(token))}

ResetPassword(token, plain, confirmPassword) ==
    /\ reqs = IdleReqs
    /\ \E o \in ResetOutcomes(token, plain, confirmPassword) :
          /\ ledger' = o.led
          /\ password' = o.pw
          /\ last' = [op |-> "resetPassword", token |-> token, plain |-> plain,
                      confirm |-> confirmPassword, result |-> o.result]
    /\ UNCHANGED <<now, refreshSecretSet, registered, users, isVerified, mailbox,
                   curRefresh, prevRefresh, reqs>>

----------------------------------------------------------------------------

Init ==
    /\ now = 0
    /\ refreshSecretSet \in BOOLEAN
    /\ users = Users
    /\ registered = {}
    /\ isVerified = [u \in Users |-> TRUE]
    /\ password = [u \in Users |-> hashPassword(InitialPassword)]
    /\ ledger = {}
    /\ mailbox = [u \in Users |-> NoToken]
    /\ curRefresh = [u \in Users |-> NoToken]
    /\ prevRefresh = [u \in Users |-> NoToken]
    /\ reqs = IdleReqs
    /\ last = [op |-> "init", result |-> Ok]

\* the reset protocol never reads the refresh secret
InitReset == Init /\ ~refreshSecretSet

\* login, refresh, logout and the maintenance sweep, each run to completion
NextCredential ==
    \/ Tick(MaxTime)
    \/ \E e \in Emails, p \in Passwords : Login(e, p)
    \/ \E t \in Presentable : Refresh(t)
    \/ \E t \in Presentable : Logout(t)
    \/ CleanupExpired
    \/ \E u \in Users : DeleteUser(u)

SpecCredential == Init /\ [][NextCredential]_vars

\* the horizon of the clock for the racing logins
RaceHorizon == 2

\* two clients logging in, the steps of their requests interleaved
NextLoginRace ==
    \/ Tick(RaceHorizon)
    \/ \E p \in Procs, e \in Users, pw \in Passwords : LoginBegin(p, e, pw)
    \/ \E p \in Procs : LoginInvalidate(p)
    \/ \E p \in Procs : LoginSave(p)

SpecLoginRace == Init /\ [][NextLoginRace]_vars

\* two forgotPassword requests in flight together
NextForgotRace ==
    \/ Tick(RaceHorizon)
    \/ \E p \in Procs, e \in Emails : ForgotBegin(p, e)
    \/ \E p \in Procs : ForgotLookup(p)
    \/ \E p \in Procs : ForgotSave(p)
    \/ \E u \in Users : DeleteUser(u)

SpecForgotRace == InitReset /\ [][NextForgotRace]_vars

\* verifyResetPasswordToken and forgotPassword of one user in flight together
NextVerifyRace ==
    \/ Tick(RaceHorizon)
    \/ \E p \in Procs : ForgotBegin(p, "u1")
    \/ \E p \in Procs : ForgotLookup(p)
    \/ \E p \in Procs : ForgotSave(p)
    \/ \E p \in Procs, t \in MailedTokens \ {NoToken} : VerifyBegin(p, t)
    \/ \E p \in Procs : VerifyUpdate(p)

SpecVerifyRace == InitReset /\ [][NextVerifyRace]_vars

\* resetPassword requests of one user in flight together
NextResetRace ==
    \/ Tick(RaceHorizon)
    \/ ForgotPassword("u1", TRUE)
    \/ \E t \in MailedTokens \ {NoToken} : VerifyResetToken(t)
    \/ \E p \in Procs, t \in MailedTokens \ {NoToken}, pw \in Passwords :
          ResetBegin(p, t, pw)
    \/ \E p \in Procs : ResetUpdateUser(p)
    \/ \E p \in Procs : ResetClear(p)

SpecResetRace == InitReset /\ [][NextResetRace]_vars

\* refreshToken requests in flight while a user is removed
NextRefreshRace ==
    \/ Tick(RaceHorizon)
    \/ \E u \in Users : Login(u, InitialPassword)
    \/ \E p \in Procs, t \in IssuedRefresh \ {NoToken} : RefreshBegin(p, t)
    \/ \E p \in Procs : RefreshGetUser(p)
    \/ \E u \in Users : RemoveUser(u)

SpecRefreshRace == Init /\ [][NextRefreshRace]_vars

\* the verify operations of the Codec on every kind of presented string
NextCodec ==
    \/ Tick(MaxTime)
    \/ \E k \in CodecKinds, t \in CodecTokens, set \in BOOLEAN : CodecVerify(k, t, set)

SpecCodec == Init /\ [][NextCodec]_vars

\* the reset protocol with a Mailer that can refuse a message
NextMailer ==
    \/ Tick(ResetHorizon)
    \/ \E e \in Emails, mailerUp \in BOOLEAN : ForgotPassword(e, mailerUp)
    \/ \E t \in MailedTokens \ {NoToken} : VerifyResetToken(t)
    \/ \E u \in Users : DeleteUser(u)

SpecMailer == InitReset /\ [][NextMailer]_vars

\* the admin set-password path next to the reset protocol of one user
NextAdmin ==
    \/ Tick(ResetHorizon)
    \/ SendAdminPasswordSetMail("u1")
    \/ ForgotPassword("u1", TRUE)
    \/ \E t \in MailedTokens \ {NoToken} : VerifyResetToken(t)
    \/ \E t \in MailedTokens \ {NoToken}, p \in Passwords : ResetPassword(t, p, p)

SpecAdmin == InitReset /\ [][NextAdmin]_vars

\* the Credential Service and the reset protocol side by side
NextFrame ==
    \/ Tick(RaceHorizon)
    \/ \E u \in Users : Login(u, InitialPassword)
    \/ \E t \in (IssuedRefresh \cup MailedTokens) \ {NoToken} : Logout(t)
    \/ \E u \in Users : ForgotPassword(u, TRUE)
    \/ \E t \in MailedTokens \ {NoToken} : VerifyResetToken(t)
    \/ \E t \in MailedTokens \ {NoToken} : ResetPassword(t, InitialPassword, InitialPassword)

SpecFrame == InitReset /\ [][NextFrame]_vars

\* registrations next to logins of the users present from the start
NextRegister ==
    \/ Tick(RaceHorizon)
    \/ \E e \in RegEmails : Register(e)
    \/ \E u \in Users : Login(u, InitialPassword)
    \/ \E u \in Users : RemoveUser(u)

SpecRegister == Init /\ [][NextRegister]_vars

\* the horizon of the clock where access tokens are followed to their expiry
GateHorizon == AccessTTL + 1

\* requests passing the Auth Gate between logins and deactivations
NextAuthGate ==
    \/ Tick(GateHorizon)
    \/ \E e \in Emails, p \in Passwords : Login(e, p)
    \/ \E u \in Users : DeleteUser(u)
    \/ \E h \in Headers : AuthMiddleware(h)

SpecAuthGate == Init /\ [][NextAuthGate]_vars

\* requests passing the optional gate while users log in and time passes
NextOptionalGate ==
    \/ Tick(GateHorizon)
    \/ \E u \in Users : Login(u, InitialPassword)
    \/ \E h \in Headers : OptionalAuthMiddleware(h)

SpecOptionalGate == Init /\ [][NextOptionalGate]_vars

\* one user walking through the reset protocol with passwords of every length
NextConsume ==
    \/ Tick(ResetHorizon)
    \/ \E e \in {"u1", NoUserEmail} : ForgotPassword(e, TRUE)
    \/ \E t \in Presentable : VerifyResetToken(t)
    \/ \E t \in Presentable, p \in AllPasswords : ResetPassword(t, p, p)

SpecConsume == InitReset /\ [][NextConsume]_vars


\* the three phases of the password reset, each run to completion
NextReset ==
    \/ Tick(ResetHorizon)
    \/ \E e \in Emails : ForgotPassword(e, TRUE)
    \/ \E t \in Presentable : VerifyResetToken(t)
    \/ \E t \in Presentable, pc \in ResetInputs : ResetPassword(t, pc[1], pc[2])
    \/ CleanupExpired
    \/ \E u \in Users : DeleteUser(u)

SpecReset == InitReset /\ [][NextReset]_vars

Next == NextCredential \/ NextReset \/ NextLoginRace \/ NextForgotRace \/ NextConsume \/ NextAuthGate \/ NextVerifyRace
    \/ NextResetRace \/ NextRefreshRace \/ NextCodec \/ NextMailer \/ NextAdmin \/ NextFrame \/ NextRegister \/ NextOptionalGate

Spec == Init /\ [][Next]_vars

----------------------------------------------------------------------------
(* Properties of the refresh-token ledger *)

RefreshRowsOf(u) == {r \in RowsOf(ledger, REFRESH) : r.user = u}

\* the refresh tokens that can be signed for user u up to the horizon
RefreshTokensOf(u) == {generateRefreshToken(u, t) : t \in 0..MaxTime}

\* C1: after any sequence of completed login, refresh, logout and
\* cleanupExpired operations the ledger holds at most one REFRESH row for
\* every user
C1_AtMostOneRefreshRow == \A u \in Users : Cardinality(RefreshRowsOf(u)) <= 1

\* a user who logged in at two different ticks and holds a row
C1_Witness ==
    \E u \in Users :
        /\ prevRefresh[u] # NoToken
        /\ prevRefresh[u] # curRefresh[u]
        /\ Cardinality(RefreshRowsOf(u)) = 1

\* C2: however the steps of two concurrent logins of one user interleave,
\* once both requests have completed the ledger holds no two REFRESH rows of
\* that user and no two refresh tokens of that user both pass refresh
C2_RaceLeavesOneRefreshRow ==
    reqs = IdleReqs =>
        \A u \in Users :
            /\ Cardinality(RefreshRowsOf(u)) <= 1
            /\ Cardinality({t \in RefreshTokensOf(u) : RefreshOutcome(t) = Ok}) <= 1

\* C3 as stated: once a later login of the same user has succeeded, the
\* token returned by the earlier login fails refresh with
\* AuthenticationError, and the token just returned passes refresh
C3_EarlierTokenRejected ==
    /\ \A u \in Users :
          prevRefresh[u] # NoToken => RefreshOutcome(prevRefresh[u]) = AuthenticationError
    /\ (last.op = "login" /\ last.result = Ok) =>
          RefreshOutcome(curRefresh[last.email]) = Ok

\* C3 as amended: every refresh token of the user other than the string
\* returned by the user's latest successful login fails refresh with
\* AuthenticationError (an earlier login signed within the same tick returned
\* the same string), and the token just returned passes refresh
C3_OtherTokensRejected ==
    /\ \A u \in Users :
          curRefresh[u] # NoToken =>
              \A t \in RefreshTokensOf(u) \cup {prevRefresh[u]} :
                  (t # curRefresh[u] /\ t # NoToken) =>
                      RefreshOutcome(t) = AuthenticationError
    /\ (last.op = "login" /\ last.result = Ok) =>
          RefreshOutcome(curRefresh[last.email]) = Ok
    /\ (last.op = "refresh" /\ last.token \in RefreshTokensOf(last.token.userId)
                            /\ last.token # curRefresh[last.token.userId]) =>
          last.result = AuthenticationError

\* refresh of the superseded token has just been refused
C3_Witness ==
    /\ last.op = "refresh"
    /\ last.result = AuthenticationError
    /\ \E u \in Users :
          /\ last.token = prevRefresh[u]
          /\ prevRefresh[u] # NoToken
          /\ prevRefresh[u] # curRefresh[u]
          /\ RefreshOutcome(curRefresh[u]) = Ok

\* the Codec accepts the token as a refresh token now
CodecAccepts(token) == token.sec = RefreshSecret /\ now < token.exp

\* a REFRESH row holds exactly this string and has not expired
LiveRefreshRow(token) ==
    \E r \in ledger :
        r.token_type = REFRESH /\ r.token = token /\ now < r.token_expire

\* C4: refresh(token) succeeds if and only if the token passes the Codec's
\* signature and expiry check and a REFRESH row holding that exact string is
\* present and unexpired, and it fails with AuthenticationError otherwise
C4_RefreshIffCodecAndRow ==
    /\ \A token \in Presentable \cup UNION {RefreshTokensOf(u) : u \in Users} :
          /\ RefreshOutcome(token) = Ok <=> (CodecAccepts(token) /\ LiveRefreshRow(token))
          /\ RefreshOutcome(token) \in {Ok, AuthenticationError}
    /\ last.op = "refresh" =>
          (last.result = Ok <=> (CodecAccepts(last.token) /\ LiveRefreshRow(last.token)))

\* a token whose signature still verifies is refused after its row was deleted
C4_Witness ==
    /\ last.op = "refresh"
    /\ last.result = AuthenticationError
    /\ CodecAccepts(last.token)
    /\ ~LiveRefreshRow(last.token)
    /\ \E u \in Users : RefreshRowsOf(u) # {}

----------------------------------------------------------------------------
(* Properties of the password-reset protocol *)

\* the RESET_PASSWORD rows holding exactly this string
ResetRowsHolding(token) == {r \in RowsOf(ledger, RESET_PASSWORD) : r.token = token}

\* C5: no path re-verifies a consumed reset token: in the state a successful
\* resetPassword(T) leaves, verifyResetToken(T) cannot succeed
C5_ConsumedTokenNotReverified ==
    (last.op = "resetPassword" /\ last.result = Ok) =>
        \A o \in VerifyOutcomes(last.token) : o.result # Ok

\* C6: resetPassword with a token whose ledger row has verifiedAt = null
\* fails with ValidationError and leaves the passwords and the ledger unchanged
C6_UnverifiedResetRejected ==
    \A u \in Users :
        (/\ mailbox[u] # NoToken
         /\ verifyPasswordResetToken(mailbox[u], now)
         /\ \E r \in ResetRowsHolding(mailbox[u]) : r.verified_at = Null) =>
            \A p \in Passwords :
                \A o \in ResetOutcomes(mailbox[u], p, p) :
                    /\ o.result = ValidationError
                    /\ o.led = ledger
                    /\ o.pw = password

\* C7: right after verifyResetToken(T) succeeded, resetPassword(T, p, p)
\* succeeds and clears verifiedAt on the row; right after that reset
\* succeeded, a second resetPassword with T fails and changes no password
C7_ResetOnceAfterVerify ==
    /\ (last.op = "verifyResetToken" /\ last.result = Ok) =>
          \A p \in Passwords :
              \A o \in ResetOutcomes(last.token, p, p) :
                  /\ o.result = Ok
                  /\ \A r \in o.led : r.token = last.token => r.verified_at = Null
    /\ (last.op = "resetPassword" /\ last.result = Ok) =>
          \A p \in Passwords :
              \A o \in ResetOutcomes(last.token, p, p) :
                  o.result # Ok /\ o.pw = password

\* C8: for the token T a forgotPassword has just issued, verifyResetToken(T)
\* succeeds and sets verifiedAt; right after it succeeded, a second
\* verifyResetToken(T) fails and leaves the ledger as it is
C8_VerifyOnce ==
    /\ (last.op = "forgotPassword" /\ last.result = Ok /\ last.mailer) =>
          \A o \in VerifyOutcomes(mailbox[last.email]) :
              /\ o.result = Ok
              /\ \A r \in o.led : r.token = mailbox[last.email] => r.verified_at = <<now>>
    /\ (last.op = "verifyResetToken" /\ last.result = Ok) =>
          \A o \in VerifyOutcomes(last.token) : o.result # Ok /\ o.led = ledger

\* C9: forgotPassword answers the same generic success message whether the
\* e-mail has no user, an unverified user or a verified user
C9_SameAnswerForEveryEmail ==
    last.op = "forgotPassword" =>
        last.result = Ok /\ last.message = GenericResetMessage

\* the e-mail belongs to an existing verified user
Eligible(email) == email \in Users /\ isVerified[email]

\* C10: forgotPassword calls the Mailer and writes a reset row only for the
\* e-mail of an existing verified user; for an absent or unverified user it
\* makes no Mailer call and leaves the ledger unchanged, and for an eligible
\* user that it answers with success the row holds the token mailed
C10_MailAndRowOnlyIfEligible ==
    [][last'.op = "forgotPassword" =>
          /\ ~Eligible(last'.email) =>
                (~last'.mailer /\ ledger' = ledger /\ mailbox' = mailbox)
          /\ (Eligible(last'.email) /\ last'.result = Ok) =>
                /\ last'.mailer
                /\ mailbox'[last'.email] = generatePasswordResetToken(last'.email, now)
                /\ \E r \in RowsOf(ledger', RESET_PASSWORD) :
                      /\ r.user = last'.email
                      /\ r.token = mailbox'[last'.email]
                      /\ r.verified_at = Null]_vars

\* forgotPassword has just been asked for a deactivated user and for an
\* unknown e-mail while the ledger holds a reset row
C10_Witness ==
    /\ last.op = "forgotPassword"
    /\ ~Eligible(last.email)
    /\ ~last.mailer
    /\ RowsOf(ledger, RESET_PASSWORD) # {}
    /\ \E u \in Users : ~isVerified[u] /\ mailbox[u] = NoToken


\* C11: each forgotPassword for an eligible user fully replaces the user's
\* prior reset row: in the state it leaves the row has verifiedAt = null and
\* the token the user held before (a different string) fails both
\* verifyResetToken and resetPassword
C11_ReissueRetiresEarlierToken ==
    [][\A u \in Users : \A old \in {mailbox[u]} :
          (/\ last'.op = "forgotPassword"
           /\ last'.email = u
           /\ last'.result = Ok
           /\ old # NoToken
           /\ old # mailbox'[u]) =>
              /\ \A r \in RowsOf(ledger', RESET_PASSWORD) :
                    r.user = u => r.verified_at = Null
              /\ \A o \in (VerifyOutcomes(old))' : o.result # Ok
              /\ \A p \in Passwords :
                    \A o \in (ResetOutcomes(old, p, p))' : o.result # Ok]_vars


\* the RESET_PASSWORD rows of a user
ResetRowsOf(u) == {r \in RowsOf(ledger, RESET_PASSWORD) : r.user = u}

\* C12: after any sequence of completed forgotPassword, verifyResetToken and
\* resetPassword operations the ledger holds at most one RESET_PASSWORD row
\* for every user
C12_AtMostOneResetRow == \A u \in Users : Cardinality(ResetRowsOf(u)) <= 1

\* a second forgotPassword has rewritten the row an earlier one inserted
C12_Witness ==
    /\ last.op = "forgotPassword"
    /\ last.result = Ok
    /\ \E r \in ResetRowsOf(last.email) :
          /\ r.token = mailbox[last.email]
          /\ r.id # NewId(r.token, r.token.iat)


\* C13: when forgotPassword requests for one user run together, once they
\* have all completed the ledger holds exactly one reset row for the user
\* and it holds the token stored last
C13_RaceLeavesOneResetRow ==
    reqs = IdleReqs =>
        \A u \in Users :
            /\ Cardinality(ResetRowsOf(u)) <= 1
            /\ mailbox[u] # NoToken =>
                  \E r \in ResetRowsOf(u) : r.token = mailbox[u]


\* the strings held by the REFRESH rows of a ledger
RefreshStrings(led) == {r.token : r \in RowsOf(led, REFRESH)}

\* C14 (as stated): after login returns r, refresh(r) succeeds and leaves the
\* ledger unchanged; once logout(r) has completed, refresh(r) fails with
\* AuthenticationError after every later step
C14_LoggedOutTokenStaysRejected ==
    [][/\ (last'.op = "login" /\ last'.result = Ok) =>
             (RefreshOutcome(curRefresh[last.email]))' = Ok
       /\ last'.op = "refresh" => ledger' = ledger
       /\ last.op = "logout" =>
             \A r \in {last.token} : (RefreshOutcome(r))' = AuthenticationError]_vars

\* C14 (amended): after login returns r, refresh(r) succeeds and leaves the
\* ledger unchanged; right after logout(r), refresh(r) fails with
\* AuthenticationError and r has no row; a string gets a row again only by a
\* successful login that returns that very string, and no token without a
\* row passes refresh
C14_LoggedOutTokenRejectedUntilReissued ==
    [][/\ (last'.op = "login" /\ last'.result = Ok) =>
             (RefreshOutcome(curRefresh[last.email]))' = Ok
       /\ last'.op = "refresh" => ledger' = ledger
       /\ last'.op = "logout" =>
             /\ (RefreshOutcome(last.token))' = AuthenticationError
             /\ last'.token \notin RefreshStrings(ledger')
       /\ \A r \in RefreshStrings(ledger') \ RefreshStrings(ledger) :
             /\ last'.op = "login"
             /\ last'.result = Ok
             /\ curRefresh'[last'.email] = r
       /\ \A r \in Presentable' :
             (RefreshOutcome(r))' = Ok => r \in RefreshStrings(ledger')]_vars

\* refresh has just rejected the token the user holds, which the Codec still
\* accepts: its row was deleted by logout
C14_Witness ==
    /\ last.op = "refresh"
    /\ last.result = AuthenticationError
    /\ \E u \in Users : curRefresh[u] = last.token
    /\ CodecAccepts(last.token)
    /\ last.token \notin RefreshStrings(ledger)


\* C15: logout is idempotent: logout(t) answers success for every t, also
\* for a token never issued or whose row is already gone; it removes the
\* REFRESH rows holding t and nothing else, and a second logout(t) leaves
\* the ledger the first one left
C15_LogoutIdempotent ==
    [][last'.op = "logout" =>
          /\ last'.result = Ok
          /\ ledger' \subseteq ledger
          /\ \A r \in ledger \ ledger' : r.token = last'.token /\ r.token_type = REFRESH
          /\ last'.token \notin RefreshStrings(ledger')
          /\ invalidateRefreshToken(ledger', last'.token) = ledger'
          /\ invalidateRefreshToken(invalidateRefreshToken(ledger, last'.token),
                                    last'.token) = ledger']_vars

\* logout has just answered success for a token that was never issued, and
\* the row of a user's token is still in the ledger
C15_Witness ==
    /\ last.op = "logout"
    /\ last.result = Ok
    /\ last.token \in ForgedTokens
    /\ RowsOf(ledger, REFRESH) # {}


\* C16: after forgotPassword, verifyResetToken(T) and a successful
\* resetPassword(T, p, p) for user u, login(u.email, p) succeeds and login
\* with u's previous password fails with AuthenticationError
C16_NewPasswordLogsIn ==
    [][(last'.op = "resetPassword" /\ last'.result = Ok) =>
          \A u \in {last'.token.userId} : \A p \in {last'.plain} :
              isVerified'[u] =>
                  /\ (loginUser(u, p))' = Ok
                  /\ \A q \in AllPasswords \ {p} :
                        validatePassword(q, password[u]) =>
                            (loginUser(u, q))' = AuthenticationError]_vars


\* C17: login fails with AuthenticationError when no user has the e-mail,
\* when the password does not match, or when the user is unverified or
\* suspended; a failed login issues no token and leaves the ledger unchanged
C17_LoginRejects ==
    [][/\ \A e \in Emails, p \in Passwords :
             (\/ e \notin Users
              \/ ~validatePassword(p, password[e])
              \/ ~isVerified[e]) => loginUser(e, p) = AuthenticationError
       /\ last'.op = "login" =>
             /\ (\/ last'.email \notin Users
                 \/ ~isVerified[last'.email]
                 \/ suspend_at[last'.email] # Null) =>
                    last'.result = AuthenticationError
             /\ last'.result = AuthenticationError =>
                    /\ ledger' = ledger
                    /\ curRefresh' = curRefresh]_vars


\* C18: every rejection of a presented token by refresh, verifyResetToken or
\* resetPassword reports the same generic error whatever the cause: for each
\* of the three operations, any two tokens rejected in a state are rejected
\* with the same message
C18_OneRejectionMessage ==
    \A t1, t2 \in Presentable :
        /\ (RefreshOutcome(t1) # Ok /\ RefreshOutcome(t2) # Ok) =>
              RefreshMessage(t1) = RefreshMessage(t2)
        /\ \A o1 \in VerifyOutcomes(t1), o2 \in VerifyOutcomes(t2) :
              (o1.result # Ok /\ o2.result # Ok) => o1.message = o2.message
        /\ \A p \in Passwords :
              \A o1 \in ResetOutcomes(t1, p, p), o2 \in ResetOutcomes(t2, p, p) :
                  (o1.result # Ok /\ o2.result # Ok) => o1.message = o2.message


\* C19: resetPassword with password different from confirmPassword fails with
\* ValidationError for every token, before the token is examined, and leaves
\* the passwords and the ledger (verifiedAt included) unchanged
C19_MismatchRejectedFirst ==
    /\ \A t \in Presentable, pc \in ResetInputs :
          pc[1] # pc[2] =>
              \A o \in ResetOutcomes(t, pc[1], pc[2]) :
                  /\ o.result = ValidationError
                  /\ o.message = "New password and confirm password do not match"
                  /\ o.led = ledger
                  /\ o.pw = password
    /\ (last.op = "resetPassword" /\ last.plain # last.confirm) =>
          last.result = ValidationError

\* resetPassword has just refused mismatching passwords sent with a token
\* that is verified and unexpired
C19_Witness ==
    /\ last.op = "resetPassword"
    /\ last.plain # last.confirm
    /\ last.result = ValidationError
    /\ verifyPasswordResetToken(last.token, now)
    /\ \E r \in ResetRowsHolding(last.token) : r.verified_at # Null


\* C20: authMiddleware calls the downstream handler if and only if the
\* Authorization header carries a Bearer token that verifies as an access
\* token and whose user id resolves to an existing user, and it then
\* attaches that user; in every other case it responds 401 without calling
\* the handler, and with a missing or non-Bearer header it calls no Codec
C20_GatePassesOnlyResolvedBearer ==
    last.op = "authMiddleware" =>
        /\ last.result.next <=>
              /\ last.header.scheme = "Bearer "
              /\ last.header.token.sec = "JWT_SECRET"
              /\ now < last.header.token.exp
              /\ last.header.token.userId \in Users
        /\ last.result.next =>
              last.result.user = last.header.token.userId /\ last.result.status = 0
        /\ ~last.result.next => last.result.status = 401
        /\ last.header.scheme # "Bearer " => last.result.codecCalls = 0

\* the gate has just refused the well-signed, unexpired token of an account
\* that no longer exists
C20_Witness ==
    /\ last.op = "authMiddleware"
    /\ last.header = [scheme |-> "Bearer ", token |-> GhostToken]
    /\ now < GhostToken.exp
    /\ last.result.status = 401
    /\ \E u \in Users : curRefresh[u] # NoToken


\* C21: while verifyResetToken and forgotPassword of one user run together,
\* a row gets verifiedAt non-null only for the token it stores: when a
\* verification that read the row holding its own token completes, the row
\* it marks still holds that token
C21_VerifiedRowHoldsVerifiedToken ==
    [][\A p \in Procs :
          (/\ reqs[p].pc = "verifyUpdate"
           /\ reqs'[p].pc = "idle"
           /\ reqs[p].rowToken = reqs[p].token) =>
              \A r \in ledger' :
                  (r.id = reqs[p].rowId /\ r.verified_at # Null) =>
                      r.token = reqs[p].token]_vars


\* C22: reset tokens are single-use under concurrency: when a resetPassword
\* request writes the password, the row it read is still verified and no
\* other request carrying the same token has written the password before it
C22_OneResetPerVerifiedToken ==
    [][\A p \in Procs :
          (reqs[p].pc = "resetUpdateUser" /\ reqs'[p].pc = "resetClear") =>
              /\ \E r \in ledger : r.id = reqs[p].rowId /\ r.verified_at # Null
              /\ \A q \in Procs \ {p} :
                    ~(reqs[q].pc = "resetClear" /\ reqs[q].token = reqs[p].token)]_vars



\* C23: verifyResetToken of a token the Codec accepts fails with
\* AuthenticationError and leaves the ledger unchanged when no reset row
\* stores the token for the token's user with an expiry still ahead (the row
\* is missing, belongs to another user, or is expired); the case is the
\* earlier token of a user right after a reissue has replaced it
C23_VerifyFailsWithoutLiveRow ==
    [][\A u \in Users : \A old \in {mailbox[u]} :
          (/\ last'.op = "forgotPassword"
           /\ last'.email = u
           /\ old # NoToken
           /\ verifyPasswordResetToken(old, now)
           /\ ~\E r \in RowsOf(ledger', RESET_PASSWORD) :
                  r.token = old /\ r.user = old.userId /\ now < r.token_expire) =>
              \A o \in (VerifyOutcomes(old))' :
                  o.result = AuthenticationError /\ o.led = ledger']_vars


\* C24: a reset row whose expiry has elapsed (now >= token_expire) is treated
\* as absent by resetPassword: the call leaves the row as it was and the
\* password of the row's user unchanged, also when the row was verified
\* before it expired
C24_ExpiredRowNotConsumed ==
    [][last'.op = "resetPassword" =>
          \A r \in RowsOf(ledger, RESET_PASSWORD) :
              r.token_expire <= now =>
                  (r \in ledger' /\ password'[r.user] = password[r.user])]_vars


\* C25: the subject stored in a RESET_PASSWORD row is the jti of the signed
\* reset token and never the signed token itself: the token handed to the
\* Mailer is not the subject of any ledger row, and its payload carries the
\* jti that the row is found by
C25_RowStoresJtiNotToken ==
    \A u \in Users :
        mailbox[u] # NoToken =>
            /\ \A r \in RowsOf(ledger, RESET_PASSWORD) : r.token # mailbox[u]
            /\ PayloadJti(mailbox[u]) # Undefined


\* C26: refresh fails with AuthenticationError and issues no access token
\* when the token is valid and its ledger row was present when read, but the
\* user named in the token no longer exists when the user is looked up
C26_RefreshOfRemovedUserUnauthorized ==
    [][\A p \in Procs :
          (/\ reqs[p].pc = "refreshGetUser"
           /\ reqs'[p].pc = "idle"
           /\ getUserById(reqs[p].token.userId) = {}) =>
              (last'.result = AuthenticationError /\ last'.accessToken = NoToken)]_vars


\* C27: once a user has been deactivated (deleteUser cleared isVerified),
\* refresh with a refresh token of that user fails and issues no access token
C27_DeactivatedUserCannotRefresh ==
    [][(last'.op = "refresh" /\ ~isVerified[last'.token.userId]) =>
            last'.result # Ok]_vars


\* C28: the Auth Gate calls the handler only for a bearer token that was
\* issued as an access token: a signed refresh token (or reset token) in the
\* Authorization header is refused
C28_GateAcceptsOnlyAccessTokens ==
    (last.op = "authMiddleware" /\ last.result.next) =>
        last.header.token =
            generateAccessToken(last.header.token.userId, last.header.token.iat)


\* the message each verify operation of the Codec fails with
C29_FixedMessage ==
    [k \in CodecKinds |->
        CASE k = "access" -> "Invalid access token"
          [] k = "refresh" -> "Invalid refresh token"
          [] k = "reset" -> "Invalid or expired password reset token"]

\* the secret a verify operation of the kind reads, "" when it is not set
C29_SecretRead ==
    IF last.kind = "refresh" /\ refreshSecretSet THEN "JWT_REFRESH_SECRET"
    ELSE IF last.jwtSecretSet THEN "JWT_SECRET" ELSE ""

\* C29: for each verify operation of the Codec (access, refresh, reset) every
\* failure cause (missing secret, malformed token, bad signature, expired
\* token) yields AuthenticationError with the one fixed message of the token
\* kind, so an expired token fails exactly as a tampered one; a well-signed
\* unexpired token is accepted
C29_OneErrorPerVerifyKind ==
    last.op = "codecVerify" =>
        IF \/ C29_SecretRead = ""
           \/ last.token = MalformedToken
           \/ last.token.sec # C29_SecretRead
           \/ now >= last.token.exp
        THEN last.result = [kind |-> AuthenticationError,
                            message |-> C29_FixedMessage[last.kind]]
        ELSE last.result.kind = Ok

\* a well-signed refresh token has just been refused after its expiry
C29_Witness ==
    /\ last.op = "codecVerify"
    /\ last.kind = "refresh"
    /\ last.token.sec = C29_SecretRead
    /\ now >= last.token.exp
    /\ last.result = [kind |-> AuthenticationError, message |-> "Invalid refresh token"]


C31_CleanupRemovesOnlyDeadRows ==
    [][last'.op = "cleanupExpired" =>
          /\ ledger' = {r \in ledger : ~(r.token_expire < now)}
          /\ last'.result = Cardinality(ledger \ ledger')
          /\ \A t \in Presentable :
                /\ RefreshOutcome(t) = Ok => (RefreshOutcome(t))' = Ok
                /\ (\E o \in VerifyOutcomes(t) : o.result = Ok) =>
                      (\E o \in VerifyOutcomes(t) : o.result = Ok)'
                /\ \A p \in Passwords :
                      (\E o \in ResetOutcomes(t, p, p) : o.result = Ok) =>
                          (\E o \in ResetOutcomes(t, p, p) : o.result = Ok)']_vars


\* C32: ledger rows are never shared across kinds: an admin set-password
\* issuance leaves every RESET_PASSWORD row as it was, a forgotPassword
\* leaves every USER_PASSWORD_SET row as it was, and no step changes the kind
\* or the owning user of a row that stays
C32_RowsNotSharedAcrossKinds ==
    [][/\ last'.op = "adminSetPasswordMail" =>
              RowsOf(ledger', RESET_PASSWORD) = RowsOf(ledger, RESET_PASSWORD)
       /\ last'.op = "forgotPassword" =>
              RowsOf(ledger', USER_PASSWORD_SET) = RowsOf(ledger, USER_PASSWORD_SET)
       /\ \A r \in ledger : \A q \in ledger' :
              r.id = q.id => (r.token_type = q.token_type /\ r.user = q.user)]_vars


\* C33: after any sequence of admin set-password issuances for a user the
\* ledger holds at most one USER_PASSWORD_SET row of the user, and a
\* successful issuance replaces the earlier one: the user's USER_PASSWORD_SET
\* rows hold the token just mailed, with verified_at null
C33_AtMostOneAdminRow ==
    \A u \in Users :
        /\ Cardinality({r \in RowsOf(ledger, USER_PASSWORD_SET) : r.user = u}) <= 1
        /\ (last.op = "adminSetPasswordMail" /\ last.user = u /\ last.result = Ok) =>
              \A r \in RowsOf(ledger, USER_PASSWORD_SET) :
                  r.user = u => (r.token = mailbox[u] /\ r.verified_at = Null)


\* C34: a token issued through the admin set-password path can complete the
\* protocol: in the state its issuance leaves, verifyResetToken with the
\* token can succeed, and resetPassword with the token can then consume the
\* verified row of the account
C34_AdminTokenCanComplete ==
    \A u \in Users :
        (last.op = "adminSetPasswordMail" /\ last.user = u /\ last.result = Ok) =>
            \E o \in VerifyOutcomes(mailbox[u]) :
                /\ o.result = Ok
                /\ \E tokenRecord \in findPasswordResetToken(o.led,
                                                            PayloadJti(mailbox[u])) :
                      /\ tokenRecord # NoRow
                      /\ tokenRecord.verified_at # Null
                      /\ tokenRecord.user = u


\* C35: a successful resetPassword(T, p, p) changes the password of exactly
\* one user, the user named in T: that user's password becomes the digest of
\* p, and no other user's password or ledger rows change
C35_ResetChangesOnlyTokenUser ==
    [][(last'.op = "resetPassword" /\ last'.result = Ok) =>
          /\ password'[last'.token.userId] = hashPassword(last'.plain)
          /\ \A u \in Users \ {last'.token.userId} :
                /\ password'[u] = password[u]
                /\ {r \in ledger' : r.user = u} = {r \in ledger : r.user = u}]_vars


\* C36: operations touch only rows of their own kind and user: login and
\* logout of one user leave the rows of every other user and every row that
\* is not a REFRESH row unchanged, and forgotPassword, verifyResetToken and
\* resetPassword leave every REFRESH row unchanged
C36_OperationsKeepToTheirRows ==
    [][/\ last'.op = "login" =>
              /\ {r \in ledger' : r.user # last'.email} =
                     {r \in ledger : r.user # last'.email}
              /\ ledger' \ RowsOf(ledger', REFRESH) = ledger \ RowsOf(ledger, REFRESH)
       /\ last'.op = "logout" =>
              /\ {r \in ledger' : r.user # last'.token.userId} =
                     {r \in ledger : r.user # last'.token.userId}
              /\ ledger' \ RowsOf(ledger', REFRESH) = ledger \ RowsOf(ledger, REFRESH)
       /\ last'.op \in {"forgotPassword", "verifyResetToken", "resetPassword"} =>
              RowsOf(ledger', REFRESH) = RowsOf(ledger, REFRESH)]_vars

\* a password has just been reset while a refresh row of a user is in the
\* ledger next to a reset row
C36_Witness ==
    /\ last.op = "resetPassword"
    /\ last.result = Ok
    /\ \E r \in RowsOf(ledger, REFRESH) : r.user = last.token.userId
    /\ RowsOf(ledger, RESET_PASSWORD) # {}


\* C37: registration with an e-mail that already belongs to a user fails
\* with ConflictError and creates no user, registration with a free e-mail
\* creates one user with it, and after every registration no two users share
\* an e-mail
C37_DuplicateRegistrationConflicts ==
    [][last'.op = "register" =>
          /\ IF \/ last'.email \in users
                \/ \E r \in registered : r.email = last'.email
             THEN last'.result = ConflictError /\ registered' = registered
             ELSE /\ last'.result = Ok
                  /\ \E r \in registered' \ registered :
                        /\ r.email = last'.email
                        /\ registered' = registered \cup {r}
          /\ \A r, q \in registered' : r.email = q.email => r = q
          /\ \A r \in registered' : r.email \notin users']_vars

\* a registration has just been refused for the e-mail of a user that an
\* earlier registration created
C37_Witness ==
    /\ last.op = "register"
    /\ last.result = ConflictError
    /\ \E r \in registered : r.email = last.email


\* C38: optionalAuthMiddleware calls the downstream handler exactly once for
\* every request and never responds with a rejection, whether the header is
\* absent, not a Bearer header, or carries a token that fails verification;
\* it attaches an identity, the one of the token, only when the header is a
\* Bearer header whose token verifies
C38_OptionalGateAlwaysProceeds ==
    last.op = "optionalAuthMiddleware" =>
        /\ last.result.nextCalls = 1
        /\ last.result.status = 0
        /\ last.result.user # NoUserEmail <=>
              /\ last.header.scheme = "Bearer "
              /\ last.header.token.sec = "JWT_SECRET"
              /\ now < last.header.token.exp
        /\ last.result.user # NoUserEmail =>
              last.result.user = last.header.token.userId

\* the optional gate has just let through a request whose Bearer token, once
\* valid, has expired
C38_Witness ==
    /\ last.op = "optionalAuthMiddleware"
    /\ last.header.scheme = "Bearer "
    /\ last.header.token.sec = "JWT_SECRET"
    /\ now >= last.header.token.exp
    /\ last.result.nextCalls = 1
    /\ last.result.user = NoUserEmail

====
